---- MODULE Spec2Model ----
(***************************************************************************)
(* A model of the Frostline chat client (React + Firebase): the identity   *)
(* mapper, the session tracker, the conversation directory, the            *)
(* conversation resolver, the message stream and the message composer,     *)
(* together with the Firebase Auth / Firestore backend they talk to.       *)
(*                                                                         *)
(* Strings are sequences of UTF-16 code units (naturals), so that          *)
(* sanitizing, trimming, sorting and joining are computed, not assumed.    *)
(***************************************************************************)
EXTENDS Naturals, Sequences, FiniteSets, TLC

VARIABLES
    \* ---- backend: Firebase Auth and Firestore ----
    accounts,     \* Auth accounts: set of [email, password, uid]
    userDocs,     \* users/{uid}: set of [id, number, displayName]
    chatDocs,     \* chats/{chatId}: set of [id, participants, participantNumbers, lastMessage, updatedAt]
    msgDocs,      \* chats/{chatId}/messages/*: set of [chat, text, senderId, senderNumber, createdAt]
    clock,        \* the server clock behind serverTimestamp()
    lastWrite,    \* history: the last write the document store committed
    \* ---- per client (one browser tab running App) ----
    authCur,      \* the Auth SDK's current user (uid or None)
    authQ,        \* auth-state notifications not yet handed to onAuthStateChanged's callback
    user, currentNumber, displayName, loadingProfile,
    chats, activeChatId, messages, compose,
    chatError, chatStreamError, messageStreamError,
    pendingPartnerNumber, policeStatus, policeError, authError,
    profSub,      \* the registered profile listeners: set of [key, st, val]
    chatSub,      \* the registered conversation-list listeners: set of [key, st, val]
    msgSub,       \* the registered message listeners: set of [key, st, val]
    effDeps,      \* the dependency values the effects last ran with
    pcAuth,       \* handleAuthSubmit in flight
    pcStart,      \* startChatWithNumber in flight
    pcSend,       \* handleSendMessage in flight
    sendResult,   \* history: how the last handleSendMessage call ended
    \* ---- harness for the pure functions ----
    call

backendVars == <<accounts, userDocs, chatDocs, msgDocs, clock, lastWrite>>
sessionVars == <<authCur, authQ, user, currentNumber, displayName, loadingProfile>>
viewVars == <<chats, activeChatId, messages, compose, chatError, chatStreamError,
              messageStreamError, pendingPartnerNumber, policeStatus, policeError,
              authError>>
subVars == <<profSub, chatSub, msgSub, effDeps>>
pcVars == <<pcAuth, pcStart, pcSend, sendResult>>
systemVars == <<backendVars, sessionVars, viewVars, subVars, pcVars>>
vars == <<systemVars, call>>

-----------------------------------------------------------------------------
(* Bounds of the model *)

\* longest raw string handed to sanitizeNumber by the harness
MaxRawLen == 8
\* longest identity handed to the chat-id derivation by the harness
MaxUidLen == 2
\* server timestamps handed out (every write commits one)
MaxClock == 7
\* auth-state notifications waiting for the callback
MaxAuthQ == 2

-----------------------------------------------------------------------------
(* Strings *)

Digit0 == 48
Digit9 == 57
MaxDigits == 6
Underscore == 95
Space == 32

\* null / an absent field (code unit 0 occurs in no string of the model)
None == <<0>>
\* the empty string ''
Empty == <<>>

IsDigit(ch) == ch >= Digit0 /\ ch <= Digit9

Min(a, b) == IF a <= b THEN a ELSE b

\* value.replace(/\D/g, '')
StripNonDigits(value) == SelectSeq(value, IsDigit)

\* .slice(0, 6)
Slice6(value) == SubSeq(value, 1, Min(MaxDigits, Len(value)))

\* slicing before stripping: the digits among the first six characters
sanitizeNumber_sliceFirst(value) == StripNonDigits(Slice6(value))

sanitizeNumber(value) == Slice6(StripNonDigits(value))

\* `${number}@chat.local`
toEmail(number) == number \o <<64, 99, 104, 97, 116, 46, 108, 111, 99, 97, 108>>

RECURSIVE TrimStart(_)
TrimStart(s) == IF s # Empty /\ Head(s) = Space THEN TrimStart(Tail(s)) ELSE s

RECURSIVE TrimEnd(_)
TrimEnd(s) ==
    IF s # Empty /\ s[Len(s)] = Space THEN TrimEnd(SubSeq(s, 1, Len(s) - 1)) ELSE s

\* String.prototype.trim (whitespace is the space character here)
Trim(s) == TrimEnd(TrimStart(s))

\* a < b in the order Array.prototype.sort uses for strings (UTF-16 code units)
RECURSIVE StrLess(_, _)
StrLess(a, b) ==
    IF b = Empty THEN FALSE
    ELSE IF a = Empty THEN TRUE
    ELSE IF Head(a) # Head(b) THEN Head(a) < Head(b)
    ELSE StrLess(Tail(a), Tail(b))

\* [x, y].sort()
SortPair(x, y) == IF StrLess(y, x) THEN <<y, x>> ELSE <<x, y>>

\* [x, y].join('_')
JoinPair(p) == p[1] \o <<Underscore>> \o p[2]

\* joining in call order, without sorting
ChatIdOf_unsorted(userId, otherUserId) == JoinPair(<<userId, otherUserId>>)

\* [userId, otherUserId].sort().join('_')
ChatIdOf(userId, otherUserId) == JoinPair(SortPair(userId, otherUserId))

-----------------------------------------------------------------------------
(* The pure functions, applied to inputs drawn from bounded sets *)

RECURSIVE StringsUpTo(_, _)
StringsUpTo(alphabet, n) ==
    IF n = 0 THEN {Empty}
    ELSE LET shorter == StringsUpTo(alphabet, n - 1)
         IN  shorter \cup {<<ch>> \o s : ch \in alphabet, s \in {t \in shorter : Len(t) = n - 1}}

\* '0', '7' and '-'
RawAlphabet == {48, 55, 45}
RawStrings == StringsUpTo(RawAlphabet, MaxRawLen)

\* Firebase Auth uids are alphanumeric: 'A' and 'b'
UidAlphabet == {65, 98}
UidStrings == StringsUpTo(UidAlphabet, MaxUidLen) \ {Empty}

NoCall == [fn |-> "none"]

SanitizeOnce ==
    /\ call.fn = "sanitize" /\ call.pc = 0
    /\ call' = [call EXCEPT !.once = sanitizeNumber(call.raw), !.pc = 1]

SanitizeTwice ==
    /\ call.fn = "sanitize" /\ call.pc = 1
    /\ call' = [call EXCEPT !.twice = sanitizeNumber(call.once), !.pc = 2]

DeriveAB ==
    /\ call.fn = "chatId" /\ call.pc = 0
    /\ call' = [call EXCEPT !.ab = ChatIdOf(call.a, call.b), !.pc = 1]

DeriveBA ==
    /\ call.fn = "chatId" /\ call.pc = 1
    /\ call' = [call EXCEPT !.ba = ChatIdOf(call.b, call.a), !.pc = 2]

DeriveCD ==
    /\ call.fn = "chatId" /\ call.pc = 2
    /\ call' = [call EXCEPT !.cd = ChatIdOf(call.c, call.d), !.pc = 3]

-----------------------------------------------------------------------------
(* The backend: Firebase Auth and Firestore *)

Clients == {"c1", "c2"}

\* identities the Auth service hands out
UidPool == {<<65>>, <<98>>}

\* "111111", "222222", "333333"
NumA == <<49, 49, 49, 49, 49, 49>>
NumB == <<50, 50, 50, 50, 50, 50>>
NumC == <<51, 51, 51, 51, 51, 51>>

\* "pass12", "pass34", " "
Pw1 == <<112, 97, 115, 115, 49, 50>>
Pw2 == <<112, 97, 115, 115, 51, 52>>
PwBlank == <<Space>>

\* what the user types into the ID field of the auth form: "111111", "222222", "12"
AuthNumberInputs == {NumA, NumB, <<49, 50>>}
AuthPasswordInputs == {Pw1, Pw2, PwBlank}
AuthConfirmInputs == {Pw1}

\* what the user hands to startChatWithNumber:
\* "111111", "11-11-119", "222222", "333333" and "12"
TargetInputs == {NumA, <<49, 49, 45, 49, 49, 45, 49, 49, 57>>, NumB, NumC, <<49, 50>>}

\* what the user types into the composer: " ", "hi", " yo "
ComposeInputs == {<<Space>>, <<104, 105>>, <<Space, 121, 111, Space>>}

\* what the user saves as display name: "Ana"
NameInputs == {<<65, 110, 97>>}

\* error codes a live query can fail with
StreamErrorCodes == {"failed-precondition", "permission-denied"}

\* the least string of a non-empty set, in code-unit order
MinStr(S) == CHOOSE x \in S : \A y \in S : y = x \/ StrLess(x, y)

\* serverTimestamp() resolved at commit
NextStamp == clock + 1

\* a chats/{id} document before any field is written
BlankChat(id) ==
    [id |-> id, participants |-> Empty, participantNumbers |-> Empty,
     lastMessage |-> None, updatedAt |-> 0]

\* a users/{uid} document before any field is written
BlankUser(id) == [id |-> id, number |-> None, displayName |-> None]

MergeFields(old, fields) ==
    [k \in DOMAIN old |-> IF k \in DOMAIN fields THEN fields[k] ELSE old[k]]

\* setDoc(ref, fields) replacing the document
SetDocReplace(docs, blank, fields) ==
    {d \in docs : d.id # blank.id} \cup {MergeFields(blank, fields)}

\* a write that drops the fields it does not name
SetDocMerge_replacing(docs, blank, fields) ==
    {d \in docs : d.id # blank.id} \cup {MergeFields(blank, fields)}

\* setDoc(ref, fields, { merge: true })
SetDocMerge(docs, blank, fields) ==
    LET old == {d \in docs : d.id = blank.id}
        base == IF old = {} THEN blank ELSE CHOOSE d \in old : TRUE
    IN  (docs \ old) \cup {MergeFields(base, fields)}

\* the documents of a set of <<key, document>> pairs, least key first (keys are distinct)
RECURSIVE SortAsc(_)
SortAsc(keyed) ==
    IF keyed = {} THEN <<>>
    ELSE LET first == CHOOSE p \in keyed : \A q \in keyed : p[1] <= q[1]
         IN  <<first[2]>> \o SortAsc(keyed \ {first})

Range(s) == {s[i] : i \in 1..Len(s)}

Reverse(s) == [i \in 1..Len(s) |-> s[Len(s) + 1 - i]]

\* getDoc / onSnapshot(doc(db, 'users', uid))
ProfileView(uid) ==
    LET found == {d \in userDocs : d.id = uid}
    IN  IF found = {} THEN [exists |-> FALSE, number |-> None, displayName |-> None]
        ELSE LET d == CHOOSE x \in found : TRUE
             IN  [exists |-> TRUE, number |-> d.number, displayName |-> d.displayName]

\* where('participants', 'array-contains', uid), orderBy('updatedAt', 'desc')
ChatListView(uid) ==
    Reverse(SortAsc({<<d.updatedAt, d>> : d \in {x \in chatDocs : uid \in Range(x.participants)}}))

\* collection(db, 'chats', chatId, 'messages'), orderBy('createdAt', 'asc')
MessagesView(chatId) ==
    SortAsc({<<m.createdAt, m>> : m \in {x \in msgDocs : x.chat = chatId}})

\* a query without its where clause
UsersByNumber_unfiltered(cleaned) == {d.id : d \in userDocs}

\* where('number', '==', cleaned): the ids of the matching profiles
UsersByNumber(cleaned) == {d.id : d \in {x \in userDocs : x.number = cleaned}}

-----------------------------------------------------------------------------
(* The client: initial state *)

IdleAuth == [op |-> "idle", number |-> Empty, pw |-> Empty, uid |-> None]
IdleStart ==
    [op |-> "idle", via |-> "none", uid |-> None, number |-> Empty,
     target |-> Empty, other |-> None]
IdleSend == [op |-> "idle", chat |-> None, uid |-> None, number |-> Empty, text |-> Empty]
NoWrite == [op |-> "none", id |-> None, by |-> None]

NoProfile == [exists |-> FALSE, number |-> None, displayName |-> None]

\* onSnapshot(ref, ...): a listener that has delivered nothing yet
Subscribe(key, nothing) == [key |-> key, st |-> "unseen", val |-> nothing]

NoDeps == [user |-> None, active |-> None, partner |-> Empty]

\* in the place of a User object that a later sign-in of the same identity replaced
\* (dependencies are compared with Object.is, and every sign-in makes a new object)
Replaced == <<1>>

InitBackend ==
    /\ accounts = {}
    /\ userDocs = {}
    /\ chatDocs = {}
    /\ msgDocs = {}
    /\ clock = 0
    /\ lastWrite = NoWrite

\* nobody: the client has just been constructed
Nobody == [uid |-> None, number |-> Empty, listed |-> FALSE]

\* The clients, each either just constructed (useState's initial values, the Auth
\* SDK yet to report its initial state) or signed in as who[c] with the profile
\* loaded and the conversation list subscribed; who[c].listed tells whether that
\* listener has delivered its first snapshot, of a backend without conversations
InitClientsAs(who) ==
    /\ authCur = [c \in Clients |-> who[c].uid]
    /\ authQ = [c \in Clients |-> IF who[c] = Nobody THEN <<None>> ELSE <<>>]
    /\ user = [c \in Clients |-> who[c].uid]
    /\ currentNumber = [c \in Clients |-> who[c].number]
    /\ displayName = [c \in Clients |-> Empty]
    /\ loadingProfile = [c \in Clients |-> who[c] = Nobody]
    /\ chats = [c \in Clients |-> <<>>]
    /\ activeChatId = [c \in Clients |-> None]
    /\ messages = [c \in Clients |-> <<>>]
    /\ compose = [c \in Clients |-> Empty]
    /\ chatError = [c \in Clients |-> ""]
    /\ chatStreamError = [c \in Clients |-> ""]
    /\ messageStreamError = [c \in Clients |-> ""]
    /\ pendingPartnerNumber = [c \in Clients |-> Empty]
    /\ policeStatus = [c \in Clients |-> Empty]
    /\ policeError = [c \in Clients |-> ""]
    /\ authError = [c \in Clients |-> ""]
    /\ profSub = [c \in Clients |->
            IF who[c] = Nobody THEN {}
            ELSE {[key |-> who[c].uid, st |-> "seen",
                   val |-> [exists |-> TRUE, number |-> who[c].number,
                            displayName |-> None]]}]
    /\ chatSub = [c \in Clients |->
            IF who[c] = Nobody THEN {}
            ELSE {[Subscribe(who[c].uid, <<>>) EXCEPT
                       !.st = IF who[c].listed THEN "seen" ELSE "unseen"]}]
    /\ msgSub = [c \in Clients |-> {}]
    /\ effDeps = [c \in Clients |-> [NoDeps EXCEPT !.user = who[c].uid]]
    /\ pcAuth = [c \in Clients |-> IdleAuth]
    /\ pcStart = [c \in Clients |-> IdleStart]
    /\ pcSend = [c \in Clients |-> IdleSend]
    /\ sendResult = [c \in Clients |-> "none"]

InitClients == InitClientsAs([c \in Clients |-> Nobody])

InitSystem == InitBackend /\ InitClients

UidA == <<65>>
UidB == <<98>>

\* a backend on which "111111" and "222222" have signed up
InitRegistered ==
    /\ accounts = {[email |-> toEmail(NumA), password |-> Pw1, uid |-> UidA],
                   [email |-> toEmail(NumB), password |-> Pw1, uid |-> UidB]}
    /\ userDocs = {[id |-> UidA, number |-> NumA, displayName |-> None],
                   [id |-> UidB, number |-> NumB, displayName |-> None]}
    /\ chatDocs = {}
    /\ msgDocs = {}
    /\ clock = 2
    /\ lastWrite = [op |-> "profile", id |-> UidB, by |-> UidB]

\* "hi"
TextHi == <<104, 105>>

\* a backend on which, after that, "222222" has started a conversation with "111111"
\* and sent "hi"
InitChatting ==
    /\ accounts = {[email |-> toEmail(NumA), password |-> Pw1, uid |-> UidA],
                   [email |-> toEmail(NumB), password |-> Pw1, uid |-> UidB]}
    /\ userDocs = {[id |-> UidA, number |-> NumA, displayName |-> None],
                   [id |-> UidB, number |-> NumB, displayName |-> None]}
    /\ chatDocs = {[id |-> ChatIdOf(UidB, UidA), participants |-> <<UidB, UidA>>,
                    participantNumbers |-> <<NumB, NumA>>, lastMessage |-> TextHi,
                    updatedAt |-> 5]}
    /\ msgDocs = {[chat |-> ChatIdOf(UidB, UidA), text |-> TextHi, senderId |-> UidB,
                   senderNumber |-> NumB, createdAt |-> 4]}
    /\ clock = 5
    /\ lastWrite = [op |-> "merge", id |-> ChatIdOf(UidB, UidA), by |-> UidB]

Init == InitSystem /\ call = NoCall

-----------------------------------------------------------------------------
(* What the component renders from *)

\* chats.find((chat) => chat.id === activeChatId) ?? null, as a set of at most one
ActiveChat(c) == {d \in Range(chats[c]) : d.id = activeChatId[c]}

\* the useMemo behind partnerNumber
PartnerNumber(c) ==
    IF ActiveChat(c) = {} THEN Empty
    ELSE LET numbers == (CHOOSE d \in ActiveChat(c) : TRUE).participantNumbers
             others == SelectSeq(numbers, LAMBDA n : n # currentNumber[c])
         IN  IF others = <<>> THEN Empty ELSE Head(others)

\* partnerNumber || pendingPartnerNumber
DisplayPartnerNumber(c) ==
    IF PartnerNumber(c) # Empty THEN PartnerNumber(c) ELSE pendingPartnerNumber[c]

\* the dependency arrays [user], [user, activeChatId] and [partnerNumber]
CurDeps(c) == [user |-> user[c], active |-> activeChatId[c], partner |-> PartnerNumber(c)]

\* the page the user acts on is a committed render whose effects have run: React
\* queues the effects of a commit ahead of whatever the user does with that page
Rendered(c) == CurDeps(c) = effDeps[c]

-----------------------------------------------------------------------------
(* Signing up, signing in, signing out *)

\* authErrorMessage(error)
authErrorMessage(code) ==
    CASE code = "auth/email-already-in-use" -> "That 6-digit ID is already registered."
      [] code = "auth/invalid-email" -> "Enter a valid 6-digit ID."
      [] code = "auth/weak-password" -> "Password should be at least 6 characters."
      [] code = "auth/wrong-password" -> "Incorrect password for that ID."
      [] code = "auth/user-not-found" -> "No account found for that ID."
      [] code = "auth/too-many-requests" -> "Too many attempts. Try again soon."
      [] OTHER -> "Unable to sign you in right now."

\* the Auth SDK takes a new current user and, when the identity differs from the one
\* it last announced, queues the notification
AuthBecomes(c, uid) ==
    /\ Len(authQ[c]) < MaxAuthQ
    /\ authCur' = [authCur EXCEPT ![c] = uid]
    /\ authQ' = [authQ EXCEPT ![c] = IF uid = authCur[c] THEN @ ELSE Append(@, uid)]

\* handleAuthSubmit up to its first await (the auth form is rendered while !user)
HandleAuthSubmit(c, mode, numberInput, passwordInput, confirmInput) ==
    /\ Rendered(c)
    /\ user[c] = None
    /\ pcAuth[c].op = "idle"
    /\ LET cleanedNumber == sanitizeNumber(numberInput)
       IN  IF Len(cleanedNumber) # MaxDigits
             THEN /\ authError' = [authError EXCEPT ![c] = "Your ID must be exactly 6 digits."]
                  /\ UNCHANGED pcAuth
           ELSE IF Trim(passwordInput) = Empty
             THEN /\ authError' = [authError EXCEPT ![c] = "Please enter a password."]
                  /\ UNCHANGED pcAuth
           ELSE IF mode = "signup" /\ passwordInput # confirmInput
             THEN /\ authError' = [authError EXCEPT ![c] = "Passwords do not match."]
                  /\ UNCHANGED pcAuth
           ELSE /\ authError' = [authError EXCEPT ![c] = ""]
                /\ pcAuth' = [pcAuth EXCEPT ![c] =
                        [op |-> mode, number |-> cleanedNumber, pw |-> passwordInput,
                         uid |-> None]]
    /\ UNCHANGED <<backendVars, sessionVars, subVars, pcStart, pcSend, sendResult, call>>
    /\ UNCHANGED <<chats, activeChatId, messages, compose, chatError, chatStreamError,
                   messageStreamError, pendingPartnerNumber, policeStatus, policeError>>

\* signInWithEmailAndPassword settles
SignInSettles(c) ==
    /\ pcAuth[c].op = "login"
    /\ LET found == {a \in accounts : a.email = toEmail(pcAuth[c].number)}
       IN  IF found = {}
             THEN /\ authError' = [authError EXCEPT ![c] = authErrorMessage("auth/user-not-found")]
                  /\ UNCHANGED <<authCur, authQ>>
           ELSE LET a == CHOOSE x \in found : TRUE
                IN  IF a.password # pcAuth[c].pw
                      THEN /\ authError' = [authError EXCEPT ![c] =
                                                authErrorMessage("auth/wrong-password")]
                           /\ UNCHANGED <<authCur, authQ>>
                    ELSE /\ AuthBecomes(c, a.uid)
                         /\ UNCHANGED authError
    /\ pcAuth' = [pcAuth EXCEPT ![c] = IdleAuth]
    /\ UNCHANGED <<backendVars, user, currentNumber, displayName, loadingProfile, subVars,
                   pcStart, pcSend, sendResult, call>>
    /\ UNCHANGED <<chats, activeChatId, messages, compose, chatError, chatStreamError,
                   messageStreamError, pendingPartnerNumber, policeStatus, policeError>>

\* an Auth service that does not look at the handles it has
EmailInUse_never(email) == FALSE

\* createUserWithEmailAndPassword rejects with auth/email-already-in-use
EmailInUse(email) == \E a \in accounts : a.email = email

\* createUserWithEmailAndPassword settles; on success the profile write is issued
CreateUserSettles(c) ==
    /\ pcAuth[c].op = "signup"
    /\ IF EmailInUse(toEmail(pcAuth[c].number))
         THEN /\ authError' = [authError EXCEPT ![c] =
                                   authErrorMessage("auth/email-already-in-use")]
              /\ pcAuth' = [pcAuth EXCEPT ![c] = IdleAuth]
              /\ UNCHANGED <<accounts, authCur, authQ>>
       ELSE \E uid \in UidPool \ {a.uid : a \in accounts} :
              /\ accounts' = accounts \cup
                     {[email |-> toEmail(pcAuth[c].number), password |-> pcAuth[c].pw,
                       uid |-> uid]}
              /\ AuthBecomes(c, uid)
              /\ pcAuth' = [pcAuth EXCEPT ![c] = [@ EXCEPT !.op = "profile", !.uid = uid]]
              /\ UNCHANGED authError
    /\ UNCHANGED <<userDocs, chatDocs, msgDocs, clock, lastWrite>>
    /\ UNCHANGED <<user, currentNumber, displayName, loadingProfile, subVars,
                   pcStart, pcSend, sendResult, call>>
    /\ UNCHANGED <<chats, activeChatId, messages, compose, chatError, chatStreamError,
                   messageStreamError, pendingPartnerNumber, policeStatus, policeError>>

\* setDoc(doc(db, 'users', uid), { number, createdAt }) settles
ProfileWriteSettles(c, ok) ==
    /\ pcAuth[c].op = "profile"
    /\ IF ok
         THEN /\ clock < MaxClock
              /\ userDocs' = SetDocReplace(userDocs, BlankUser(pcAuth[c].uid),
                                           [number |-> pcAuth[c].number])
              /\ clock' = NextStamp
              /\ lastWrite' = [op |-> "profile", id |-> pcAuth[c].uid, by |-> pcAuth[c].uid]
              /\ UNCHANGED authError
       ELSE /\ authError' = [authError EXCEPT ![c] = authErrorMessage("permission-denied")]
            /\ UNCHANGED <<userDocs, clock, lastWrite>>
    /\ pcAuth' = [pcAuth EXCEPT ![c] = IdleAuth]
    /\ UNCHANGED <<accounts, chatDocs, msgDocs, sessionVars, subVars,
                   pcStart, pcSend, sendResult, call>>
    /\ UNCHANGED <<chats, activeChatId, messages, compose, chatError, chatStreamError,
                   messageStreamError, pendingPartnerNumber, policeStatus, policeError>>

\* handleSignOut: signOut(auth) (the button is rendered while user)
HandleSignOut(c) ==
    /\ Rendered(c)
    /\ user[c] # None
    /\ authCur[c] # None
    /\ AuthBecomes(c, None)
    /\ UNCHANGED <<backendVars, user, currentNumber, displayName, loadingProfile, viewVars,
                   subVars, pcVars, call>>

\* the callback given to onAuthStateChanged runs with the next notification
AuthStateChanged(c) ==
    /\ authQ[c] # <<>>
    /\ LET nextUser == Head(authQ[c])
       IN  /\ user' = [user EXCEPT ![c] = nextUser]
           /\ IF nextUser = None
                THEN /\ currentNumber' = [currentNumber EXCEPT ![c] = Empty]
                     /\ displayName' = [displayName EXCEPT ![c] = Empty]
                     /\ loadingProfile' = [loadingProfile EXCEPT ![c] = FALSE]
              ELSE /\ loadingProfile' = [loadingProfile EXCEPT ![c] = TRUE]
                   /\ UNCHANGED <<currentNumber, displayName>>
    /\ authQ' = [authQ EXCEPT ![c] = Tail(@)]
    /\ chats' = [chats EXCEPT ![c] = <<>>]
    /\ messages' = [messages EXCEPT ![c] = <<>>]
    /\ activeChatId' = [activeChatId EXCEPT ![c] = None]
    /\ chatError' = [chatError EXCEPT ![c] = ""]
    /\ authError' = [authError EXCEPT ![c] = ""]
    /\ effDeps' = [effDeps EXCEPT ![c].user =
            IF Head(authQ[c]) # None /\ Head(authQ[c]) = @ THEN Replaced ELSE @]
    /\ UNCHANGED <<backendVars, authCur, profSub, chatSub, msgSub, pcVars, call>>
    /\ UNCHANGED <<compose, chatStreamError, messageStreamError, pendingPartnerNumber,
                   policeStatus, policeError>>

-----------------------------------------------------------------------------
(* Effects and live subscriptions *)

\* formatFirestoreError(error) / firestoreErrorMessage(error)
formatFirestoreError(code) ==
    CASE code = "failed-precondition" ->
             "Firestore needs an index for chats (participants array-contains + updatedAt desc)."
      [] code = "permission-denied" -> "Firestore permission denied. Check your rules."
      [] OTHER -> code

\* an effect that keeps the listeners of its previous run
Unsubscribe_leaky(subs) == subs

\* the cleanup an effect returned: () => unsubscribe()
Unsubscribe(subs) == {}

\* React commits a render and flushes the effects whose dependencies changed:
\* every cleanup first, then every effect body
RunEffects(c) ==
    /\ CurDeps(c) # effDeps[c]
    /\ LET userChanged == user[c] # effDeps[c].user
           chatChanged == userChanged \/ activeChatId[c] # effDeps[c].active
           partnerChanged == PartnerNumber(c) # effDeps[c].partner
           noStream == user[c] = None \/ activeChatId[c] = None
       IN  /\ profSub' = [profSub EXCEPT ![c] =
                   IF ~userChanged THEN @
                   ELSE Unsubscribe(@) \cup
                        (IF user[c] = None THEN {} ELSE {Subscribe(user[c], NoProfile)})]
           /\ chatSub' = [chatSub EXCEPT ![c] =
                   IF ~userChanged THEN @
                   ELSE Unsubscribe(@) \cup
                        (IF user[c] = None THEN {} ELSE {Subscribe(user[c], <<>>)})]
           /\ msgSub' = [msgSub EXCEPT ![c] =
                   IF ~chatChanged THEN @
                   ELSE Unsubscribe(@) \cup
                        (IF noStream THEN {} ELSE {Subscribe(activeChatId[c], <<>>)})]
           /\ messages' = [messages EXCEPT ![c] =
                   IF chatChanged /\ noStream THEN <<>> ELSE @]
           /\ messageStreamError' = [messageStreamError EXCEPT ![c] =
                   IF chatChanged /\ noStream THEN "" ELSE @]
           /\ pendingPartnerNumber' = [pendingPartnerNumber EXCEPT ![c] =
                   IF partnerChanged /\ PartnerNumber(c) # Empty THEN Empty ELSE @]
    /\ effDeps' = [effDeps EXCEPT ![c] = CurDeps(c)]
    /\ UNCHANGED <<backendVars, sessionVars, pcVars, call>>
    /\ UNCHANGED <<chats, activeChatId, compose, chatError, chatStreamError,
                   policeStatus, policeError, authError>>

\* a registered listener that has not ended with an error
Live(sub) == sub.st \in {"unseen", "seen"}

\* the listener sub of subs, after it delivered val or ended
Delivered(subs, sub, st, val) == (subs \ {sub}) \cup {[sub EXCEPT !.st = st, !.val = val]}

\* a listener has something to deliver: its first snapshot, or a changed result
Due(sub, view) == Live(sub) /\ (sub.st = "unseen" \/ sub.val # view)

\* onSnapshot(profileRef, (snapshot) => ...)
ProfileSnapshot(c) ==
    \E sub \in profSub[c] :
    LET view == ProfileView(sub.key)
    IN  /\ Due(sub, view)
        /\ currentNumber' = [currentNumber EXCEPT ![c] =
                IF view.exists /\ view.number # None THEN view.number ELSE Empty]
        /\ displayName' = [displayName EXCEPT ![c] =
                IF view.exists /\ view.displayName # None THEN view.displayName ELSE Empty]
        /\ loadingProfile' = [loadingProfile EXCEPT ![c] = FALSE]
        /\ profSub' = [profSub EXCEPT ![c] = Delivered(@, sub, "seen", view)]
        /\ UNCHANGED <<backendVars, authCur, authQ, user, viewVars, chatSub, msgSub, effDeps,
                       pcVars, call>>

\* a directory that follows the head of the list
AutoSelect_always(prev, nextChats) ==
    IF nextChats # <<>> THEN nextChats[1].id ELSE None

\* a directory that never selects by itself
AutoSelect_never(prev, nextChats) == prev

\* setActiveChatId((prev) => prev ?? nextChats[0]?.id ?? null)
AutoSelect(prev, nextChats) ==
    IF prev # None THEN prev
    ELSE IF nextChats # <<>> THEN nextChats[1].id ELSE None

\* onSnapshot(chatQuery, (snapshot) => ...)
ChatListSnapshot(c) ==
    \E sub \in chatSub[c] :
    LET nextChats == ChatListView(sub.key)
    IN  /\ Due(sub, nextChats)
        /\ chats' = [chats EXCEPT ![c] = nextChats]
        /\ activeChatId' = [activeChatId EXCEPT ![c] = AutoSelect(@, nextChats)]
        /\ chatStreamError' = [chatStreamError EXCEPT ![c] = ""]
        /\ chatSub' = [chatSub EXCEPT ![c] = Delivered(@, sub, "seen", nextChats)]
        /\ UNCHANGED <<backendVars, sessionVars, profSub, msgSub, effDeps, pcVars, call>>
        /\ UNCHANGED <<messages, compose, chatError, messageStreamError,
                       pendingPartnerNumber, policeStatus, policeError, authError>>

\* onSnapshot(chatQuery, ..., (error) => ...): the listener ends with an error
ChatListError(c, code) ==
    \E sub \in chatSub[c] :
    /\ Live(sub)
    /\ chatStreamError' = [chatStreamError EXCEPT ![c] = formatFirestoreError(code)]
    /\ chatSub' = [chatSub EXCEPT ![c] = Delivered(@, sub, "dead", sub.val)]
    /\ UNCHANGED <<backendVars, sessionVars, profSub, msgSub, effDeps, pcVars, call>>
    /\ UNCHANGED <<chats, activeChatId, messages, compose, chatError, messageStreamError,
                   pendingPartnerNumber, policeStatus, policeError, authError>>

\* onSnapshot(messageQuery, (snapshot) => ...)
MessagesSnapshot(c) ==
    \E sub \in msgSub[c] :
    LET nextMessages == MessagesView(sub.key)
    IN  /\ Due(sub, nextMessages)
        /\ messages' = [messages EXCEPT ![c] = nextMessages]
        /\ messageStreamError' = [messageStreamError EXCEPT ![c] = ""]
        /\ msgSub' = [msgSub EXCEPT ![c] = Delivered(@, sub, "seen", nextMessages)]
        /\ UNCHANGED <<backendVars, sessionVars, profSub, chatSub, effDeps, pcVars, call>>
        /\ UNCHANGED <<chats, activeChatId, compose, chatError, chatStreamError,
                       pendingPartnerNumber, policeStatus, policeError, authError>>

\* onSnapshot(messageQuery, ..., (error) => ...): the listener ends with an error
MessagesError(c, code) ==
    \E sub \in msgSub[c] :
    /\ Live(sub)
    /\ messageStreamError' = [messageStreamError EXCEPT ![c] = formatFirestoreError(code)]
    /\ msgSub' = [msgSub EXCEPT ![c] = Delivered(@, sub, "dead", sub.val)]
    /\ UNCHANGED <<backendVars, sessionVars, profSub, chatSub, effDeps, pcVars, call>>
    /\ UNCHANGED <<chats, activeChatId, messages, compose, chatError, chatStreamError,
                   pendingPartnerNumber, policeStatus, policeError, authError>>

-----------------------------------------------------------------------------
(* Starting a conversation *)

ErrorResult(msg) == [kind |-> "error", error |-> msg, chatId |-> None, number |-> Empty]

\* what the call returned, handed to the setters of one form
ShowResult(c, via, result) ==
    /\ IF via = "chat"
         THEN /\ chatError' = [chatError EXCEPT ![c] =
                     IF result.kind = "error" THEN result.error ELSE ""]
              /\ UNCHANGED <<policeError, policeStatus>>
       ELSE /\ policeError' = [policeError EXCEPT ![c] =
                     IF result.kind = "error" THEN result.error ELSE ""]
            /\ policeStatus' = [policeStatus EXCEPT ![c] =
                     IF result.kind = "ok" THEN result.number ELSE Empty]
            /\ UNCHANGED chatError

\* a call site that reports to the other form
StartReturns_otherForm(c, via, result) ==
    ShowResult(c, IF via = "chat" THEN "police" ELSE "chat", result)

\* handleStartChat / handleContactPolice receive what startChatWithNumber returned
StartReturns(c, via, result) == ShowResult(c, via, result)

\* a resolver that does not look at the caller's own number
PrecheckError_noProfileCheck(number, cleanedTarget) ==
    IF Len(cleanedTarget) # MaxDigits THEN "Enter a 6-digit ID." ELSE ""

\* what startChatWithNumber and findUserByNumber return before any backend call
\* ("" when they go on to the query)
PrecheckError(number, cleanedTarget) ==
    IF number = Empty THEN "Finish setting up your profile before chatting."
    ELSE IF Len(cleanedTarget) # MaxDigits THEN "Enter a 6-digit ID."
    ELSE ""

\* handleStartChat / handleContactPolice up to the first await of startChatWithNumber
\* (rendered while user; the start-chat form is disabled while loadingProfile)
HandleStartChat(c, via, targetNumber) ==
    /\ Rendered(c)
    /\ user[c] # None
    /\ via = "chat" => ~loadingProfile[c]
    /\ pcStart[c].op = "idle"
    /\ LET cleanedTarget == sanitizeNumber(targetNumber)
           failure == PrecheckError(currentNumber[c], cleanedTarget)
       IN  IF failure # ""
             THEN /\ StartReturns(c, via, ErrorResult(failure))
                  /\ UNCHANGED pcStart
           ELSE /\ pcStart' = [pcStart EXCEPT ![c] =
                        [op |-> "lookup", via |-> via, uid |-> user[c],
                         number |-> currentNumber[c], target |-> cleanedTarget,
                         other |-> None]]
                /\ chatError' = [chatError EXCEPT ![c] = IF via = "chat" THEN "" ELSE @]
                /\ policeError' = [policeError EXCEPT ![c] = IF via = "police" THEN "" ELSE @]
                /\ policeStatus' = [policeStatus EXCEPT ![c] =
                        IF via = "police" THEN Empty ELSE @]
    /\ UNCHANGED <<backendVars, sessionVars, subVars, pcAuth, pcSend, sendResult, call>>
    /\ UNCHANGED <<chats, activeChatId, messages, compose, chatStreamError,
                   messageStreamError, pendingPartnerNumber, authError>>

\* a resolver that lets every target through
IsSelfTarget_never(cleanedNumber, number) == FALSE

\* lookup.cleanedNumber === currentNumber
IsSelfTarget(cleanedNumber, number) == cleanedNumber = number

\* getDocs(userQuery) settles; past the checks the merge write is issued
LookupSettles(c) ==
    /\ pcStart[c].op = "lookup"
    /\ LET found == UsersByNumber(pcStart[c].target)
       IN  IF found = {}
             THEN /\ StartReturns(c, pcStart[c].via, ErrorResult("No player found with that ID."))
                  /\ pcStart' = [pcStart EXCEPT ![c] = IdleStart]
           ELSE IF IsSelfTarget(pcStart[c].target, pcStart[c].number)
             THEN /\ StartReturns(c, pcStart[c].via, ErrorResult("That is your own ID."))
                  /\ pcStart' = [pcStart EXCEPT ![c] = IdleStart]
           ELSE /\ pcStart' = [pcStart EXCEPT ![c] =
                        [@ EXCEPT !.op = "upsert", !.other = MinStr(found)]]
                /\ UNCHANGED <<chatError, policeError, policeStatus>>
    /\ UNCHANGED <<backendVars, sessionVars, subVars, pcAuth, pcSend, sendResult, call>>
    /\ UNCHANGED <<chats, activeChatId, messages, compose, chatStreamError,
                   messageStreamError, pendingPartnerNumber, authError>>

\* a record that lists the caller's number for both participants
UpsertFields_ownNumberTwice(userId, otherUserId, number, otherNumber, stamp) ==
    [participants |-> <<userId, otherUserId>>,
     participantNumbers |-> <<number, number>>,
     updatedAt |-> stamp]

\* the fields startChatWithNumber / upsertChat write
UpsertFields(userId, otherUserId, number, otherNumber, stamp) ==
    [participants |-> <<userId, otherUserId>>,
     participantNumbers |-> <<number, otherNumber>>,
     updatedAt |-> stamp]

\* setDoc(doc(db, 'chats', chatId), {...}, { merge: true }) settles;
\* on success the conversation becomes the active one
UpsertSettles(c, ok) ==
    /\ pcStart[c].op = "upsert"
    /\ LET p == pcStart[c]
           chatId == ChatIdOf(p.uid, p.other)
       IN  IF ok
             THEN /\ clock < MaxClock
                  /\ chatDocs' = SetDocMerge(chatDocs, BlankChat(chatId),
                         UpsertFields(p.uid, p.other, p.number, p.target, NextStamp))
                  /\ clock' = NextStamp
                  /\ lastWrite' = [op |-> "upsert", id |-> chatId, by |-> p.uid]
                  /\ activeChatId' = [activeChatId EXCEPT ![c] = chatId]
                  /\ pendingPartnerNumber' = [pendingPartnerNumber EXCEPT ![c] = p.target]
                  /\ StartReturns(c, p.via,
                         [kind |-> "ok", error |-> "", chatId |-> chatId, number |-> p.target])
           ELSE UNCHANGED <<chatDocs, clock, lastWrite, activeChatId, pendingPartnerNumber,
                               chatError, policeError, policeStatus>>
    /\ pcStart' = [pcStart EXCEPT ![c] = IdleStart]
    /\ UNCHANGED <<accounts, userDocs, msgDocs, sessionVars, subVars, pcAuth, pcSend,
                   sendResult, call>>
    /\ UNCHANGED <<chats, messages, compose, chatStreamError, messageStreamError, authError>>

\* onClick={() => setActiveChatId(chat.id)} on an entry of the list
SelectChat(c, i) ==
    /\ Rendered(c)
    /\ user[c] # None
    /\ i \in 1..Len(chats[c])
    /\ activeChatId[c] # chats[c][i].id
    /\ activeChatId' = [activeChatId EXCEPT ![c] = chats[c][i].id]
    /\ UNCHANGED <<backendVars, sessionVars, subVars, pcVars, call>>
    /\ UNCHANGED <<chats, messages, compose, chatError, chatStreamError, messageStreamError,
                   pendingPartnerNumber, policeStatus, policeError, authError>>

-----------------------------------------------------------------------------
(* Composing and sending *)

\* onChange={(event) => setCompose(event.target.value)} (disabled while !hasActiveChat)
SetCompose(c, text) ==
    /\ Rendered(c)
    /\ user[c] # None
    /\ activeChatId[c] # None
    /\ compose[c] # text
    /\ compose' = [compose EXCEPT ![c] = text]
    /\ UNCHANGED <<backendVars, sessionVars, subVars, pcVars, call>>
    /\ UNCHANGED <<chats, activeChatId, messages, chatError, chatStreamError,
                   messageStreamError, pendingPartnerNumber, policeStatus, policeError,
                   authError>>

\* testing the raw text instead of the trimmed text
IsBlank_untrimmed(text) == text = Empty

\* !compose.trim()
IsBlank(text) == Trim(text) = Empty

\* handleSendMessage up to its first await (rendered while user)
HandleSendMessage(c) ==
    /\ Rendered(c)
    /\ user[c] # None
    /\ pcSend[c].op = "idle"
    /\ IF activeChatId[c] = None \/ IsBlank(compose[c])
         THEN /\ sendResult' = [sendResult EXCEPT ![c] = "ignored"]
              /\ UNCHANGED pcSend
       ELSE /\ pcSend' = [pcSend EXCEPT ![c] =
                    [op |-> "append", chat |-> activeChatId[c], uid |-> user[c],
                     number |-> currentNumber[c], text |-> Trim(compose[c])]]
            /\ UNCHANGED sendResult
    /\ UNCHANGED <<backendVars, sessionVars, viewVars, subVars, pcAuth, pcStart, call>>

\* a handler that swallows the rejection of addDoc
AfterAppend_swallowing(ok) == "merge"

\* where handleSendMessage goes when addDoc settles: a rejection leaves the handler
AfterAppend(ok) == IF ok THEN "merge" ELSE "idle"

\* addDoc(collection(db, 'chats', activeChatId, 'messages'), {...}) settles;
\* on success the merge-update of the conversation is issued
AppendSettles(c, ok) ==
    /\ pcSend[c].op = "append"
    /\ LET p == pcSend[c]
       IN  /\ IF ok
                THEN /\ clock < MaxClock
                     /\ msgDocs' = msgDocs \cup
                            {[chat |-> p.chat, text |-> p.text, senderId |-> p.uid,
                              senderNumber |-> p.number, createdAt |-> NextStamp]}
                     /\ clock' = NextStamp
                     /\ lastWrite' = [op |-> "append", id |-> p.chat, by |-> p.uid]
              ELSE UNCHANGED <<msgDocs, clock, lastWrite>>
           /\ IF AfterAppend(ok) = "merge"
                THEN /\ pcSend' = [pcSend EXCEPT ![c] = [@ EXCEPT !.op = "merge"]]
                     /\ UNCHANGED sendResult
              ELSE /\ pcSend' = [pcSend EXCEPT ![c] = IdleSend]
                   /\ sendResult' = [sendResult EXCEPT ![c] = "failed"]
    /\ UNCHANGED <<accounts, userDocs, chatDocs, sessionVars, viewVars, subVars, pcAuth,
                   pcStart, call>>

\* setDoc(doc(db, 'chats', activeChatId), { lastMessage, updatedAt }, { merge: true })
\* settles; on success the composer is cleared
MergeSettles(c, ok) ==
    /\ pcSend[c].op = "merge"
    /\ LET p == pcSend[c]
       IN  IF ok
             THEN /\ clock < MaxClock
                  /\ chatDocs' = SetDocMerge(chatDocs, BlankChat(p.chat),
                         [lastMessage |-> p.text, updatedAt |-> NextStamp])
                  /\ clock' = NextStamp
                  /\ lastWrite' = [op |-> "merge", id |-> p.chat, by |-> p.uid]
                  /\ compose' = [compose EXCEPT ![c] = Empty]
                  /\ sendResult' = [sendResult EXCEPT ![c] = "sent"]
           ELSE /\ sendResult' = [sendResult EXCEPT ![c] = "failed"]
                /\ UNCHANGED <<chatDocs, clock, lastWrite, compose>>
    /\ pcSend' = [pcSend EXCEPT ![c] = IdleSend]
    /\ UNCHANGED <<accounts, userDocs, msgDocs, sessionVars, subVars, pcAuth, pcStart, call>>
    /\ UNCHANGED <<chats, activeChatId, messages, chatError, chatStreamError,
                   messageStreamError, pendingPartnerNumber, policeStatus, policeError,
                   authError>>

-----------------------------------------------------------------------------
(* Editing the profile *)

\* the profile-edit action: a merge write of displayName to users/{uid}
SaveDisplayName(c, name) ==
    /\ Rendered(c)
    /\ user[c] # None
    /\ ProfileView(user[c]).displayName # name
    /\ userDocs' = SetDocMerge(userDocs, BlankUser(user[c]), [displayName |-> name])
    /\ lastWrite' = [op |-> "name", id |-> user[c], by |-> user[c]]
    /\ UNCHANGED <<accounts, chatDocs, msgDocs, clock, sessionVars, viewVars, subVars,
                   pcVars, call>>

-----------------------------------------------------------------------------
(* Specifications *)

\* signing up
SignUpSteps(c, numbers, passwords) ==
    \/ \E n \in numbers, p \in passwords, q \in AuthConfirmInputs :
          HandleAuthSubmit(c, "signup", n, p, q)
    \/ CreateUserSettles(c)
    \/ \E ok \in BOOLEAN : ProfileWriteSettles(c, ok)

\* signing in
SignInSteps(c, numbers, passwords) ==
    \/ \E n \in numbers, p \in passwords, q \in AuthConfirmInputs :
          HandleAuthSubmit(c, "login", n, p, q)
    \/ SignInSettles(c)

\* the session tracker, the directory and the message stream
SessionSteps(c) ==
    \/ AuthStateChanged(c)
    \/ RunEffects(c)
    \/ ProfileSnapshot(c)
    \/ ChatListSnapshot(c)
    \/ MessagesSnapshot(c)

\* live queries failing
StreamErrorSteps(c) ==
    \/ \E code \in StreamErrorCodes : ChatListError(c, code)
    \/ \E code \in StreamErrorCodes : MessagesError(c, code)

\* the conversation resolver
StartSteps(c, vias, targets) ==
    \/ \E via \in vias, t \in targets : HandleStartChat(c, via, t)
    \/ LookupSettles(c)
    \/ \E ok \in BOOLEAN : UpsertSettles(c, ok)

\* the message composer
SendSteps(c, texts) ==
    \/ \E text \in texts : SetCompose(c, text)
    \/ HandleSendMessage(c)
    \/ \E ok \in BOOLEAN : AppendSettles(c, ok)
    \/ \E ok \in BOOLEAN : MergeSettles(c, ok)

ClientStep(c) ==
    \/ SignUpSteps(c, AuthNumberInputs, AuthPasswordInputs)
    \/ SignInSteps(c, AuthNumberInputs, AuthPasswordInputs)
    \/ HandleSignOut(c)
    \/ SessionSteps(c)
    \/ StreamErrorSteps(c)
    \/ StartSteps(c, {"chat", "police"}, TargetInputs)
    \/ \E i \in 1..Len(chats[c]) : SelectChat(c, i)
    \/ SendSteps(c, ComposeInputs \cup {Empty})
    \/ \E name \in NameInputs : SaveDisplayName(c, name)

Next == \E c \in Clients : ClientStep(c)

\* every client, every operation, from an empty backend
Spec == Init /\ [][Next]_vars

\* one client signing in and out as either registered user, while profiles are edited
NextSession ==
    \E c \in {"c1"} :
        \/ SignInSteps(c, {NumA, NumB}, {Pw1})
        \/ HandleSignOut(c)
        \/ SessionSteps(c)
        \/ \E name \in NameInputs : SaveDisplayName(c, name)

InitSession == InitChatting /\ InitClients /\ call = NoCall

SpecSession == InitSession /\ [][NextSession]_vars

UserA == [uid |-> UidA, number |-> NumA, listed |-> FALSE]
UserB == [uid |-> UidB, number |-> NumB, listed |-> FALSE]

\* the number of the other registered user
OtherNumber(c) == IF user[c] = UidA THEN NumB ELSE NumA

\* c1 signed in as "111111" and c2 as "222222"
InitPair == InitClientsAs([c \in Clients |-> IF c = "c1" THEN UserA ELSE UserB])

\* two signed-in clients, one per registered user, starting conversations with each
\* other
NextPair ==
    \E c \in Clients :
        \/ RunEffects(c)
        \/ ChatListSnapshot(c)
        \/ MessagesSnapshot(c)
        \/ StartSteps(c, {"chat"}, {OtherNumber(c)})

\* from a backend without conversations
InitPairRegistered == InitRegistered /\ InitPair /\ call = NoCall

SpecPair == InitPairRegistered /\ [][NextPair]_vars

\* from a backend on which the two already share a conversation with a message in it
InitPairChatting == InitChatting /\ InitPair /\ call = NoCall

SpecAgain == InitPairChatting /\ [][NextPair]_vars

\* c1 signed in as "111111", c2 just constructed
InitSolo == InitClientsAs([c \in Clients |-> IF c = "c1" THEN UserA ELSE Nobody])

\* one signed-in client starting conversations with every kind of target, from both
\* call sites, and composing and sending
NextSolo ==
    \E c \in {"c1"} :
        \/ RunEffects(c)
        \/ ChatListSnapshot(c)
        \/ MessagesSnapshot(c)
        \/ StartSteps(c, {"chat", "police"}, TargetInputs)
        \/ SendSteps(c, {Empty, <<Space>>, TextHi})

InitSoloChatting == InitChatting /\ InitSolo /\ call = NoCall

SpecSolo == InitSoloChatting /\ [][NextSolo]_vars

\* sanitizeNumber applied, twice over, to every raw string up to MaxRawLen
InitSanitize ==
    /\ InitSystem
    /\ \E raw \in RawStrings :
        call = [fn |-> "sanitize", raw |-> raw, once |-> None, twice |-> None, pc |-> 0]

NextSanitize == (SanitizeOnce \/ SanitizeTwice) /\ UNCHANGED systemVars

SpecSanitize == InitSanitize /\ [][NextSanitize]_vars

\* the identifier derived for every two pairs of identities up to MaxUidLen
InitChatId ==
    /\ InitSystem
    /\ \E a \in UidStrings, b \in UidStrings, c \in UidStrings, d \in UidStrings :
        call = [fn |-> "chatId", a |-> a, b |-> b, c |-> c, d |-> d,
                ab |-> None, ba |-> None, cd |-> None, pc |-> 0]

NextChatId == (DeriveAB \/ DeriveBA \/ DeriveCD) /\ UNCHANGED systemVars

SpecChatId == InitChatId /\ [][NextChatId]_vars

\* " yo "
TextYoPadded == <<Space, 121, 111, Space>>

\* c1 signed in as "111111" and c2 as "222222", each with the first snapshot of an
\* empty conversation list delivered
InitPairListed ==
    InitClientsAs([c \in Clients |->
        IF c = "c1" THEN [UserA EXCEPT !.listed = TRUE] ELSE [UserB EXCEPT !.listed = TRUE]])

\* "111111" starts the conversation with "222222" and sends; "222222" watches
NextScenario ==
    \/ \E c \in Clients : RunEffects(c) \/ ChatListSnapshot(c) \/ MessagesSnapshot(c)
    \/ StartSteps("c1", {"chat"}, {NumB})
    \/ SendSteps("c1", {TextYoPadded})

InitScenario == InitRegistered /\ InitPairListed /\ call = NoCall

SpecScenario == InitScenario /\ [][NextScenario]_vars

\* two clients signing up, for the same number or for different ones, from a backend
\* without accounts
NextSignUp ==
    \E c \in Clients :
        \/ SignUpSteps(c, {NumA, NumB}, {Pw1})
        \/ AuthStateChanged(c)
        \/ RunEffects(c)
        \/ ProfileSnapshot(c)
        \/ ChatListSnapshot(c)

SpecSignUp == Init /\ [][NextSignUp]_vars

UidC == <<67>>

\* a backend on which "111111", "222222" and "333333" have signed up and "222222"
\* has started a conversation with "111111"
InitThreeUsers ==
    /\ accounts = {[email |-> toEmail(NumA), password |-> Pw1, uid |-> UidA],
                   [email |-> toEmail(NumB), password |-> Pw1, uid |-> UidB],
                   [email |-> toEmail(NumC), password |-> Pw1, uid |-> UidC]}
    /\ userDocs = {[id |-> UidA, number |-> NumA, displayName |-> None],
                   [id |-> UidB, number |-> NumB, displayName |-> None],
                   [id |-> UidC, number |-> NumC, displayName |-> None]}
    /\ chatDocs = {[id |-> ChatIdOf(UidB, UidA), participants |-> <<UidB, UidA>>,
                    participantNumbers |-> <<NumB, NumA>>, lastMessage |-> None,
                    updatedAt |-> 4]}
    /\ msgDocs = {}
    /\ clock = 4
    /\ lastWrite = [op |-> "upsert", id |-> ChatIdOf(UidB, UidA), by |-> UidB]

\* "111111" starts a conversation with "333333" and selects among its two
\* conversations, while "222222" sends in its conversation with "111111"
NextTrio ==
    \/ \E c \in Clients : RunEffects(c) \/ ChatListSnapshot(c) \/ MessagesSnapshot(c)
    \/ StartSteps("c1", {"chat"}, {NumC})
    \/ \E i \in 1..Len(chats["c1"]) : SelectChat("c1", i)
    \/ SendSteps("c2", {TextHi})

InitTrio == InitThreeUsers /\ InitPair /\ call = NoCall

SpecTrio == InitTrio /\ [][NextTrio]_vars

\* one signed-in client whose live queries fail and whose lookups find nobody or
\* find the caller
NextFailures ==
    \E c \in {"c1"} :
        \/ RunEffects(c)
        \/ ChatListSnapshot(c)
        \/ MessagesSnapshot(c)
        \/ StreamErrorSteps(c)
        \/ \E via \in {"chat", "police"}, t \in {NumA, NumC} : HandleStartChat(c, via, t)
        \/ LookupSettles(c)

SpecFailures == InitSoloChatting /\ [][NextFailures]_vars

\* one client signing in as "111111" and starting conversations from both forms,
\* before and after its profile has loaded: targets "12", "11-11-119" and "222222"
NextResolve ==
    \E c \in {"c1"} :
        \/ SignInSteps(c, {NumA}, {Pw1})
        \/ SessionSteps(c)
        \/ StartSteps(c, {"chat", "police"},
                      {<<49, 50>>, <<49, 49, 45, 49, 49, 45, 49, 49, 57>>, NumB})

SpecResolve == InitSession /\ [][NextResolve]_vars

\* the value of clock once "222222" has started the conversation with "111111"
StartedAt == 3

\* a backend on which "111111" and "222222" have signed up and "222222" has started
\* the conversation with "111111"; nothing has been sent
InitStarted ==
    /\ accounts = {[email |-> toEmail(NumA), password |-> Pw1, uid |-> UidA],
                   [email |-> toEmail(NumB), password |-> Pw1, uid |-> UidB]}
    /\ userDocs = {[id |-> UidA, number |-> NumA, displayName |-> None],
                   [id |-> UidB, number |-> NumB, displayName |-> None]}
    /\ chatDocs = {[id |-> ChatIdOf(UidB, UidA), participants |-> <<UidB, UidA>>,
                    participantNumbers |-> <<NumB, NumA>>, lastMessage |-> None,
                    updatedAt |-> StartedAt]}
    /\ msgDocs = {}
    /\ clock = StartedAt
    /\ lastWrite = [op |-> "upsert", id |-> ChatIdOf(UidB, UidA), by |-> UidB]

\* what each of the two types into the composer: "hi" and " yo "
DuelText(c) == IF c = "c1" THEN TextHi ELSE TextYoPadded

\* both participants of one conversation composing and sending
NextDuel ==
    \E c \in Clients :
        \/ RunEffects(c)
        \/ ChatListSnapshot(c)
        \/ MessagesSnapshot(c)
        \/ SendSteps(c, {DuelText(c)})

InitDuel == InitStarted /\ InitPair /\ call = NoCall

SpecDuel == InitDuel /\ [][NextDuel]_vars

\* one client signing in and out as either registered user and, while signed in,
\* calling the police line with "222222"
NextRoam ==
    \E c \in {"c1"} :
        \/ SignInSteps(c, {NumA, NumB}, {Pw1})
        \/ HandleSignOut(c)
        \/ SessionSteps(c)
        \/ StartSteps(c, {"police"}, {NumB})

SpecRoam == InitSession /\ [][NextRoam]_vars

\* a backend on which "111111", "222222" and "333333" have signed up and "111111"
\* has started a conversation with each of the other two; nothing has been sent
InitTwoChats ==
    /\ accounts = {[email |-> toEmail(NumA), password |-> Pw1, uid |-> UidA],
                   [email |-> toEmail(NumB), password |-> Pw1, uid |-> UidB],
                   [email |-> toEmail(NumC), password |-> Pw1, uid |-> UidC]}
    /\ userDocs = {[id |-> UidA, number |-> NumA, displayName |-> None],
                   [id |-> UidB, number |-> NumB, displayName |-> None],
                   [id |-> UidC, number |-> NumC, displayName |-> None]}
    /\ chatDocs = {[id |-> ChatIdOf(UidA, UidB), participants |-> <<UidA, UidB>>,
                    participantNumbers |-> <<NumA, NumB>>, lastMessage |-> None,
                    updatedAt |-> 4],
                   [id |-> ChatIdOf(UidA, UidC), participants |-> <<UidA, UidC>>,
                    participantNumbers |-> <<NumA, NumC>>, lastMessage |-> None,
                    updatedAt |-> 5]}
    /\ msgDocs = {}
    /\ clock = 5
    /\ lastWrite = [op |-> "upsert", id |-> ChatIdOf(UidA, UidC), by |-> UidA]

\* "111111" signing in and out, selecting among its two conversations and sending
NextHaste ==
    \E c \in {"c1"} :
        \/ SignInSteps(c, {NumA}, {Pw1})
        \/ HandleSignOut(c)
        \/ SessionSteps(c)
        \/ \E i \in 1..Len(chats[c]) : SelectChat(c, i)
        \/ SendSteps(c, {TextHi})

InitHaste == InitTwoChats /\ InitClients /\ call = NoCall

SpecHaste == InitHaste /\ [][NextHaste]_vars

-----------------------------------------------------------------------------
(* The identity mapper: sanitizeNumber (C7) *)

\* the first n digits of s, in their original order
RECURSIVE TakeDigits(_, _)
TakeDigits(s, n) ==
    IF s = Empty \/ n = 0 THEN Empty
    ELSE IF IsDigit(Head(s)) THEN <<Head(s)>> \o TakeDigits(Tail(s), n - 1)
    ELSE TakeDigits(Tail(s), n)

\* C7: for every raw string s, sanitizeNumber(s) holds only digits, is at most six
\* long, is the first six digits of s in their original order, and sanitizing it
\* again gives it back
C7_SanitizeNumber ==
    /\ (call.fn = "sanitize" /\ call.pc >= 1) =>
          /\ \A i \in 1..Len(call.once) : IsDigit(call.once[i])
          /\ Len(call.once) <= MaxDigits
          /\ call.once = TakeDigits(call.raw, MaxDigits)
    /\ (call.fn = "sanitize" /\ call.pc = 2) => call.twice = call.once

\* a raw string with a non-digit among its first six characters and more than six
\* digits has been sanitized twice
C7_Witness ==
    /\ call.fn = "sanitize" /\ call.pc = 2
    /\ Len(StripNonDigits(call.raw)) > MaxDigits
    /\ \E i \in 1..MaxDigits : ~IsDigit(call.raw[i])
    /\ Len(call.twice) = MaxDigits

-----------------------------------------------------------------------------
(* The conversation identifier (C3) *)

\* C3: the identifier derived from (a, b) is the one derived from (b, a), and two
\* different unordered pairs of identities never derive the same identifier
C3_ChatIdPerPair ==
    (call.fn = "chatId" /\ call.pc = 3) =>
        /\ call.ab = call.ba
        /\ {call.a, call.b} # {call.c, call.d} => call.ab # call.cd

\* the identifier has been derived in both orders for a pair that sorting swaps,
\* and for a different pair that shares one identity with it
C3_Witness ==
    /\ call.fn = "chatId" /\ call.pc = 3
    /\ StrLess(call.b, call.a)
    /\ {call.a, call.b} # {call.c, call.d}
    /\ {call.a, call.b} \cap {call.c, call.d} # {}

-----------------------------------------------------------------------------
(* The conversation resolver: one conversation per pair (C1, C2) *)

\* C1: whatever startChatWithNumber calls the users have made, in whatever
\* interleaving, the backend holds at most one conversation record per unordered pair
\* of identities, and the record a call wrote is that one
C1_OneChatPerPair ==
    /\ \A d1 \in chatDocs, d2 \in chatDocs :
          Range(d1.participants) = Range(d2.participants) => d1 = d2
    /\ lastWrite.op = "upsert" => \A d \in chatDocs : d.id = lastWrite.id

\* both users have started the conversation with the other, and one record exists
C1_Witness ==
    /\ pendingPartnerNumber["c1"] = NumB
    /\ pendingPartnerNumber["c2"] = NumA
    /\ Cardinality(chatDocs) = 1
    /\ lastWrite.op = "upsert"

\* the step in which client c's merge write of startChatWithNumber commits
UpsertCommits(c) ==
    /\ pcStart[c].op = "upsert"
    /\ pcStart'[c].op = "idle"
    /\ clock' # clock

\* C2: when startChatWithNumber is called again for a pair that has a conversation,
\* by either of the two, it returns (and selects) the identifier of that record, the
\* pair still has exactly one record, and the lastMessage a send wrote to it is unchanged
C2_SecondStartKeepsRecord ==
    [][\A c \in Clients : UpsertCommits(c) =>
          \A d \in chatDocs :
              Range(d.participants) = {pcStart[c].uid, pcStart[c].other} =>
                  /\ activeChatId'[c] = d.id
                  /\ lastWrite'.id = d.id
                  /\ Cardinality(chatDocs') = Cardinality(chatDocs)
                  /\ \A e \in chatDocs' :
                        Range(e.participants) = Range(d.participants) =>
                            e.id = d.id /\ e.lastMessage = d.lastMessage]_vars

\* "111111" has started the conversation that "222222" had started and sent "hi" in:
\* the record now lists "111111" first and still holds "hi"
C2_Witness ==
    /\ lastWrite.op = "upsert" /\ lastWrite.by = UidA
    /\ \E d \in chatDocs :
          /\ d.participants = <<UidA, UidB>>
          /\ d.lastMessage = TextHi
          /\ d.updatedAt = clock
          /\ activeChatId["c1"] = d.id

-----------------------------------------------------------------------------
(* The conversation resolver: targets it refuses (C4, C5) *)

\* the step in which client c's lookup settles
LookupReturns(c) == pcStart[c].op = "lookup" /\ pcStart'[c].op # "lookup"

\* the call site of client c's call receives the error msg
StartFailsWith(c, msg) ==
    /\ pcStart'[c].op = "idle"
    /\ pcStart[c].via = "chat" => chatError'[c] = msg
    /\ pcStart[c].via = "police" => policeError'[c] = msg /\ policeStatus'[c] = Empty

-----------------------------------------------------------------------------
(* The message composer: blank text (C6) *)

\* text is empty or holds only whitespace
OnlySpaces(text) == \A i \in 1..Len(text) : text[i] = Space

\* C6: submitting the composer while its text is empty or whitespace-only issues
\* neither the append nor the merge-update and changes nothing: the backend, the
\* compose text, the message list, the conversation list and the active conversation
\* stay as they were
C6_BlankSendIgnored ==
    [][\A c \in Clients :
          (OnlySpaces(compose[c]) /\ pcSend[c].op = "idle") =>
              /\ pcSend'[c].op = "idle"
              /\ sendResult'[c] # sendResult[c] =>
                    /\ sendResult'[c] = "ignored"
                    /\ UNCHANGED <<backendVars, sessionVars, viewVars, subVars, pcAuth,
                                   pcStart, pcSend>>]_vars

\* a whitespace-only text has been submitted in an active conversation that holds a
\* message
C6_Witness ==
    /\ sendResult["c1"] = "ignored"
    /\ compose["c1"] = <<Space>>
    /\ activeChatId["c1"] # None
    /\ messages["c1"] # <<>>
    /\ pcSend["c1"].op = "idle"

-----------------------------------------------------------------------------
(* The session tracker and its subscriptions (C8, C9, C10) *)

\* the step in which client c's callback receives a sign-out notification
SignOutProcessed(c) ==
    /\ authQ[c] # <<>>
    /\ Head(authQ[c]) = None
    /\ authQ'[c] = Tail(authQ[c])

\* C8: processing a sign-out notification leaves the number and the display name
\* empty, loading false and the session signed out; and while the session stays
\* signed out no step (no late profile snapshot) makes the number or the display
\* name non-empty again
C8_SignOutClearsProfile ==
    [][\A c \in Clients :
          /\ SignOutProcessed(c) =>
                /\ user'[c] = None
                /\ currentNumber'[c] = Empty
                /\ displayName'[c] = Empty
                /\ ~loadingProfile'[c]
          /\ (user[c] = None /\ user'[c] = None) =>
                /\ currentNumber[c] = Empty => currentNumber'[c] = Empty
                /\ displayName[c] = Empty => displayName'[c] = Empty]_vars

\* the step in which a profile listener of client c delivers a snapshot: its record
\* changes while the effects do not run
ProfileDelivers(c, sub) ==
    /\ sub \in profSub[c] /\ sub \notin profSub'[c]
    /\ effDeps'[c] = effDeps[c]

\* C9: at most one profile listener is registered in any state (the previous
\* identity's is cancelled before the next one's is started), and once the callback
\* has taken the sign-in notification of an identity, no snapshot of another
\* identity's listener is applied to number, display name or loading
C9_OneProfileSubscription ==
    [][\A c \in Clients :
          /\ Cardinality(profSub[c]) <= 1 /\ Cardinality(profSub'[c]) <= 1
          /\ \A sub \in profSub[c] :
                (ProfileDelivers(c, sub) /\ user[c] # None) => sub.key = user[c]]_vars

\* the ids of the conversations in a list, and the texts and stamps of the messages
ChatIds(list) == [i \in 1..Len(list) |-> list[i].id]
NoRepeats(list) == \A i, j \in 1..Len(list) : list[i] = list[j] => i = j

\* C10: once a sign-out has been processed (the callback has run and the effects
\* of that render have been flushed) the number, the display name, the conversation
\* list and the message list are empty and no listener of the three kinds is
\* registered; and once signed in again with the listeners up to date, the
\* conversation list and the message list are the backend's, nothing appearing twice
C10_SignOutClearsAll ==
    \A c \in Clients :
        /\ (user[c] = None /\ authQ[c] = <<>> /\ Rendered(c)) =>
              /\ currentNumber[c] = Empty /\ displayName[c] = Empty
              /\ chats[c] = <<>> /\ messages[c] = <<>>
              /\ profSub[c] = {} /\ chatSub[c] = {} /\ msgSub[c] = {}
        /\ (user[c] # None /\ authQ[c] = <<>> /\ Rendered(c)) =>
              /\ \A sub \in chatSub[c] :
                    (sub.st = "seen" /\ ~Due(sub, ChatListView(sub.key))) =>
                        chats[c] = ChatListView(user[c]) /\ NoRepeats(ChatIds(chats[c]))
              /\ \A sub \in msgSub[c] :
                    (sub.st = "seen" /\ ~Due(sub, MessagesView(sub.key))) =>
                        /\ messages[c] = MessagesView(activeChatId[c])
                        /\ NoRepeats(messages[c])

-----------------------------------------------------------------------------
(* The scenario: one user starts the conversation and sends (C11) *)

\* a listener of subs has delivered the current result of its query
UpToDate(subs, view) == \E sub \in subs : sub.st = "seen" /\ sub.val = view

\* once "111111" has started the conversation with "222222": exactly one conversation
\* exists, the query of either directory returns it, a client whose listener is up to
\* date lists it, its participantNumbers are the two numbers and its updatedAt is set
C11_AfterStart ==
    chatDocs # {} =>
        /\ Cardinality(chatDocs) = 1
        /\ \A d \in chatDocs :
              /\ ChatListView(UidA) = <<d>> /\ ChatListView(UidB) = <<d>>
              /\ Len(d.participantNumbers) = 2
              /\ Range(d.participantNumbers) = {NumA, NumB}
              /\ d.updatedAt > 0 /\ d.updatedAt <= clock
              /\ \A c \in Clients :
                    UpToDate(chatSub[c], ChatListView(user[c])) => chats[c] = <<d>>

\* the step in which the append of client c's send commits
AppendCommits(c) ==
    /\ pcSend[c].op = "append"
    /\ msgDocs' # msgDocs

\* the step in which both writes of client c's send have succeeded
SendCompletes(c) ==
    /\ pcSend[c].op = "merge"
    /\ pcSend'[c].op = "idle"
    /\ clock' # clock

\* the first send of "111111": its append leaves the message list with exactly one
\* entry, which carries the text, the number and the identity of "111111"; and when
\* its merge-update commits, the conversation's lastMessage is that text and the list
\* still has that one entry
C11_AfterSend ==
    /\ (AppendCommits("c1") /\ msgDocs = {}) =>
          /\ Cardinality(msgDocs') = 1
          /\ \A m \in msgDocs' :
                /\ \A d \in chatDocs : m.chat = d.id
                /\ m.text = pcSend["c1"].text
                /\ m.senderNumber = NumA
                /\ m.senderId = UidA
    /\ (SendCompletes("c1") /\ Cardinality(msgDocs) = 1
            /\ \A d \in chatDocs : d.lastMessage = None) =>
          /\ msgDocs' = msgDocs
          /\ \A d \in chatDocs', m \in msgDocs' :
                /\ d.lastMessage = m.text
                /\ m.createdAt < d.updatedAt

-----------------------------------------------------------------------------
(* Signing up: one account and one profile per number (C12) *)

\* no two accounts have the same handle and no two profile documents the same number
C12_OnePerNumber ==
    /\ \A a1 \in accounts, a2 \in accounts : a1.email = a2.email => a1 = a2
    /\ \A d1 \in userDocs, d2 \in userDocs : d1.number = d2.number => d1 = d2

\* the step in which client c's createUserWithEmailAndPassword settles
CreateReturns(c) == pcAuth[c].op = "signup" /\ pcAuth'[c].op # "signup"

\* a sign-up for a number that already has an account fails with the 'already
\* registered' message, creates no account and issues no profile write
C12_LoserFails ==
    \A c \in Clients :
        (CreateReturns(c) /\ \E a \in accounts : a.email = toEmail(pcAuth[c].number)) =>
            /\ authError'[c] = "That 6-digit ID is already registered."
            /\ pcAuth'[c].op = "idle"
            /\ UNCHANGED <<accounts, userDocs, authCur>>

\* C12: when two sign-ups race for the same six-digit number, at most one creates an
\* account and a profile document, the other fails with the 'already registered'
\* error and writes no profile; in every reachable state no two profile documents
\* have the same number
C12_SignUpRace == []C12_OnePerNumber /\ [][C12_LoserFails]_vars

\* both clients signed up for "111111": c2 was refused, the profile of the one
\* account has been written by c1, and c2 is still signed out
C12_Witness ==
    /\ authError["c2"] = "That 6-digit ID is already registered."
    /\ pcAuth["c1"].op = "idle" /\ pcAuth["c2"].op = "idle"
    /\ Cardinality(accounts) = 1
    /\ \E d \in userDocs : d.number = NumA /\ d.id = user["c1"]
    /\ user["c2"] = None /\ authCur["c2"] = None

-----------------------------------------------------------------------------
(* The conversation directory: what a snapshot selects (C13, C14) *)

\* the step in which the conversation-list listener sub of client c delivers a
\* snapshot: its record is replaced by a "seen" one while the effects do not run
ListDelivers(c, sub) ==
    /\ sub \in chatSub[c] /\ sub \notin chatSub'[c]
    /\ \E new \in chatSub'[c] \ chatSub[c] : new.st = "seen"
    /\ effDeps'[c] = effDeps[c]

\* C13: the directory auto-selects only when it processes the first snapshot of a
\* session with no conversation selected; a second or later snapshot never changes
\* the active conversation from null to a conversation identifier
C13_FirstSnapshotOnly ==
    [][\A c \in Clients : \A sub \in chatSub[c] :
          (ListDelivers(c, sub) /\ activeChatId[c] = None /\ activeChatId'[c] # None) =>
              sub.st = "unseen"]_vars

\* C13 as the code has it: whenever the directory processes a snapshot, the first or
\* a later one, while no conversation is selected, it selects the most recent
\* conversation of that snapshot (none if the snapshot is empty); a snapshot
\* processed while a conversation is selected leaves the selection as it is
C13_SelectsWhenNoneSelected ==
    [][\A c \in Clients : \A sub \in chatSub[c] :
          ListDelivers(c, sub) =>
              /\ activeChatId[c] # None => activeChatId'[c] = activeChatId[c]
              /\ (activeChatId[c] = None /\ chats'[c] = <<>>) => activeChatId'[c] = None
              /\ (activeChatId[c] = None /\ chats'[c] # <<>>) =>
                    \E d \in Range(chats'[c]) :
                        /\ activeChatId'[c] = d.id
                        /\ \A e \in Range(chats'[c]) : e.updatedAt <= d.updatedAt]_vars

\* "222222", whose first snapshot was empty and who neither starts nor selects a
\* conversation, has the conversation "111111" started selected and its message shown
C13_Witness ==
    /\ activeChatId["c2"] = ChatIdOf(UidA, UidB)
    /\ pcStart["c2"].op = "idle" /\ pendingPartnerNumber["c2"] = Empty
    /\ Len(chats["c2"]) = 1
    /\ Len(messages["c2"]) = 1

\* C14: once the active conversation is set (by the user selecting an entry or by a
\* successful startChatWithNumber), no conversation-list snapshot delivered afterwards
\* in the session changes it, whatever the order or contents of the snapshot
C14_SelectionKept ==
    [][\A c \in Clients : \A sub \in chatSub[c] :
          (ListDelivers(c, sub) /\ activeChatId[c] # None) =>
              activeChatId'[c] = activeChatId[c]]_vars

\* "111111" has the conversation it started with "333333" selected, and the list it
\* was last delivered has the conversation with "222222" first
C14_Witness ==
    /\ activeChatId["c1"] = ChatIdOf(UidA, UidC)
    /\ Len(chats["c1"]) = 2
    /\ chats["c1"][1].id = ChatIdOf(UidA, UidB)
    /\ chats["c1"][2].id = ChatIdOf(UidA, UidC)
    /\ UpToDate(chatSub["c1"], chats["c1"])

-----------------------------------------------------------------------------
(* The message stream: switching the active conversation (C15) *)

\* the step in which the message listener sub of client c delivers a snapshot
StreamDelivers(c, sub) ==
    /\ sub \in msgSub[c] /\ sub \notin msgSub'[c]
    /\ \E new \in msgSub'[c] \ msgSub[c] : new.st = "seen"
    /\ effDeps'[c] = effDeps[c]

\* at most one message listener and at most one conversation-list listener is
\* registered
C15_OneListenerEach ==
    \A c \in Clients : Cardinality(msgSub[c]) <= 1 /\ Cardinality(chatSub[c]) <= 1

\* a message snapshot that is applied comes from the listener of the conversation
\* that is active, and a conversation-list snapshot from the listener of the identity
\* that is signed in
C15_NoStaleSnapshot ==
    \A c \in Clients :
        /\ \A sub \in msgSub[c] : StreamDelivers(c, sub) => sub.key = activeChatId[c]
        /\ \A sub \in chatSub[c] : ListDelivers(c, sub) => sub.key = user[c]

\* C15: when the active conversation changes, the previous conversation's message
\* listener is cancelled before the next one is started, at most one message listener
\* is registered in any state, and no snapshot of the previous conversation's listener
\* is applied to the message list after the change; the same for the
\* conversation-list listener when the identity changes
C15_SwitchCancelsStream == []C15_OneListenerEach /\ [][C15_NoStaleSnapshot]_vars

-----------------------------------------------------------------------------
(* Failures are local (C16) *)

\* the step in which a listener among subs ends with an error
ListenerFails(subs, subsAfter) == \E new \in subsAfter \ subs : new.st = "dead"

\* the step in which client c's lookup settles and the call returns an error
LookupFails(c) == LookupReturns(c) /\ pcStart'[c].op = "idle"

\* C16: an error of the conversation-list listener changes only the conversation-list
\* banner, an error of the message listener only the message-list banner, a failed
\* lookup only the error message of the form that made the call; none of them changes
\* the conversation list, the message list, the active conversation or the session,
\* or cancels another listener
C16_FailuresAreLocal ==
    [][\A c \in Clients :
          /\ ListenerFails(chatSub[c], chatSub'[c]) =>
                /\ Cardinality(chatSub'[c]) = Cardinality(chatSub[c])
                /\ UNCHANGED <<backendVars, sessionVars, pcVars, profSub, msgSub, effDeps>>
                /\ UNCHANGED <<chats, activeChatId, messages, compose, chatError,
                               messageStreamError, pendingPartnerNumber, policeStatus,
                               policeError, authError>>
          /\ ListenerFails(msgSub[c], msgSub'[c]) =>
                /\ Cardinality(msgSub'[c]) = Cardinality(msgSub[c])
                /\ UNCHANGED <<backendVars, sessionVars, pcVars, profSub, chatSub, effDeps>>
                /\ UNCHANGED <<chats, activeChatId, messages, compose, chatError,
                               chatStreamError, pendingPartnerNumber, policeStatus,
                               policeError, authError>>
          /\ LookupFails(c) =>
                /\ UNCHANGED <<backendVars, sessionVars, subVars, pcAuth, pcSend, sendResult>>
                /\ UNCHANGED <<chats, activeChatId, messages, compose, chatStreamError,
                               messageStreamError, pendingPartnerNumber, policeStatus,
                               authError>>
                /\ pcStart[c].via = "chat" => policeError'[c] = policeError[c]
                /\ pcStart[c].via = "police" => chatError'[c] = chatError[c]]_vars

\* with a conversation active and its message shown, both live queries have failed
\* and both forms have been refused: the lists, the selection and the profile
\* listener are as they were
C16_Witness ==
    /\ chatStreamError["c1"] = "Firestore permission denied. Check your rules."
    /\ messageStreamError["c1"] # ""
    /\ chatError["c1"] = "No player found with that ID."
    /\ policeError["c1"] = "That is your own ID."
    /\ Len(chats["c1"]) = 1 /\ Len(messages["c1"]) = 1
    /\ activeChatId["c1"] = ChatIdOf(UidA, UidB)
    /\ user["c1"] = UidA /\ currentNumber["c1"] = NumA
    /\ \A sub \in profSub["c1"] : Live(sub)
    /\ \A sub \in chatSub["c1"] \cup msgSub["c1"] : ~Live(sub)
    /\ chatSub["c1"] # {} /\ msgSub["c1"] # {}

-----------------------------------------------------------------------------
(* The session tracker: the loading flag (C17) *)

\* the step in which client c's callback receives the sign-in notification of uid
SignInProcessed(c) ==
    /\ authQ[c] # <<>>
    /\ Head(authQ[c]) # None
    /\ authQ'[c] = Tail(authQ[c])

\* the step in which client c's callback receives a notification
NotificationProcessed(c) == authQ[c] # <<>> /\ authQ'[c] = Tail(authQ[c])

\* the number and the display name a profile snapshot of uid carries
NumberOf(uid) ==
    IF \E d \in userDocs : d.id = uid /\ d.number # None
      THEN (CHOOSE d \in userDocs : d.id = uid).number ELSE Empty
NameOf(uid) ==
    IF \E d \in userDocs : d.id = uid /\ d.displayName # None
      THEN (CHOOSE d \in userDocs : d.id = uid).displayName ELSE Empty

\* C17: a sign-in notification sets loading; loading then stays true until the first
\* profile snapshot of that identity is delivered; every profile snapshot sets the
\* number and the display name from the document (empty if there is none) and
\* leaves loading false; loading never returns to true without a new sign-in
\* notification
C17_LoadingUntilFirstSnapshot ==
    [][\A c \in Clients :
          /\ SignInProcessed(c) => loadingProfile'[c]
          /\ (loadingProfile[c] /\ ~loadingProfile'[c] /\ ~NotificationProcessed(c)) =>
                \E sub \in profSub[c] :
                    ProfileDelivers(c, sub) /\ sub.key = user[c] /\ sub.st = "unseen"
          /\ \A sub \in profSub[c] :
                ProfileDelivers(c, sub) =>
                    /\ currentNumber'[c] = NumberOf(sub.key)
                    /\ displayName'[c] = NameOf(sub.key)
                    /\ ~loadingProfile'[c]
          /\ (~loadingProfile[c] /\ loadingProfile'[c]) => SignInProcessed(c)]_vars

-----------------------------------------------------------------------------
(* The conversation resolver: checks made before the backend is touched (C18) *)

\* the step in which a call of client c is refused before its first await: a form's
\* error message changes while no call is or comes in flight
StartRefused(c) ==
    /\ pcStart[c].op = "idle" /\ pcStart'[c].op = "idle"
    /\ chatError'[c] # chatError[c] \/ policeError'[c] # policeError[c]
    /\ ~NotificationProcessed(c)

\* the message that changed in such a step
RefusalShown(c) == IF chatError'[c] # chatError[c] THEN chatError'[c] ELSE policeError'[c]

\* the step in which a form of client c comes to show msg
ErrorAppears(c, msg) ==
    \/ chatError'[c] = msg /\ chatError[c] # msg
    \/ policeError'[c] = msg /\ policeError[c] # msg

\* C18: startChatWithNumber checks its preconditions before touching the backend:
\* with an empty current number it fails with 'Finish setting up your profile before
\* chatting.' and with a target that does not sanitize to six digits with 'Enter a
\* 6-digit ID.', in both cases without issuing the lookup query or any write; the
\* self-target check is made only after the lookup has found a profile
C18_ChecksBeforeBackend ==
    [][\A c \in Clients :
          /\ StartRefused(c) =>
                /\ UNCHANGED <<backendVars, activeChatId, pendingPartnerNumber>>
                /\ RefusalShown(c) =
                       IF currentNumber[c] = Empty
                         THEN "Finish setting up your profile before chatting."
                         ELSE "Enter a 6-digit ID."
          /\ (pcStart[c].op = "idle" /\ pcStart'[c].op # "idle") =>
                /\ pcStart'[c].op = "lookup"
                /\ currentNumber[c] # Empty
                /\ Len(pcStart'[c].target) = MaxDigits
                /\ \A i \in 1..Len(pcStart'[c].target) : IsDigit(pcStart'[c].target[i])
                /\ UNCHANGED backendVars
          /\ ErrorAppears(c, "That is your own ID.") =>
                /\ pcStart[c].op = "lookup"
                /\ \E d \in userDocs : d.number = pcStart[c].target]_vars

\* signed in, the police form was refused while the profile was loading and, once
\* it had loaded, the start form was refused the target "12"; no call went in
\* flight and nothing has been written
C18_Witness ==
    /\ user["c1"] = UidA /\ currentNumber["c1"] = NumA
    /\ policeError["c1"] = "Finish setting up your profile before chatting."
    /\ chatError["c1"] = "Enter a 6-digit ID."
    /\ pcStart["c1"].op = "idle"
    /\ clock = 5 /\ lastWrite.op = "merge"

-----------------------------------------------------------------------------
(* The message composer: two writes, in order, not atomic (C19, C20) *)

\* the messages of conversation chatId whose createdAt is the latest
Newest(chatId) ==
    {m \in msgDocs : m.chat = chatId /\ \A n \in msgDocs : n.chat = chatId => n.createdAt <= m.createdAt}

\* C19: a non-blank send issues two writes in a fixed order, the append and then the
\* merge-update of lastMessage and updatedAt; the merge-update is issued only after
\* the append has succeeded, the compose text is cleared only after both have
\* succeeded, and a failed second write leaves the message recorded with lastMessage
\* and updatedAt as they were
C19_AppendThenMerge ==
    [][\A c \in Clients :
          LET p == pcSend[c] IN
          /\ (p.op = "idle" /\ pcSend'[c].op # "idle") =>
                /\ pcSend'[c].op = "append"
                /\ ~OnlySpaces(compose[c])
                /\ UNCHANGED <<backendVars, compose>>
          /\ (p.op = "append" /\ pcSend'[c].op # "append") =>
                /\ UNCHANGED <<chatDocs, compose>>
                /\ IF pcSend'[c].op = "merge"
                     THEN /\ \E m \in msgDocs' \ msgDocs :
                                /\ msgDocs' = msgDocs \cup {m}
                                /\ m.chat = p.chat /\ m.text = p.text
                                /\ m.createdAt = clock'
                          /\ clock' = clock + 1
                   ELSE pcSend'[c].op = "idle" /\ UNCHANGED backendVars
          /\ (p.op = "merge" /\ pcSend'[c].op # "merge") =>
                /\ pcSend'[c].op = "idle"
                /\ UNCHANGED msgDocs
                /\ \/ /\ clock' = clock + 1
                      /\ \E d \in chatDocs' :
                            d.id = p.chat /\ d.lastMessage = p.text /\ d.updatedAt = clock'
                      /\ compose'[c] = Empty
                   \/ UNCHANGED <<backendVars, compose>>]_vars

\* the second write of a send has failed: the message is recorded, the conversation's
\* updatedAt is older than the message, and the compose text is still there
C19_Witness ==
    /\ sendResult["c1"] = "failed"
    /\ pcSend["c1"].op = "idle"
    /\ compose["c1"] = TextHi
    /\ \E d \in chatDocs :
          /\ Newest(d.id) # {}
          /\ \A m \in Newest(d.id) : m.senderId = UidA /\ m.createdAt > d.updatedAt

\* C20: for every conversation with at least one message, whenever no send is in
\* flight and every send's writes have succeeded (two writes per recorded message
\* since the conversation was started), lastMessage equals the text of the message
\* with the greatest createdAt, including when both participants send concurrently
C20_LastMessageIsNewest ==
    (/\ \A c \in Clients : pcSend[c].op = "idle"
     /\ clock = StartedAt + 2 * Cardinality(msgDocs))
        => \A d \in chatDocs : \A m \in Newest(d.id) : d.lastMessage = m.text

-----------------------------------------------------------------------------
(* The conversation record: participants and their numbers (C21) *)

\* the conversation record has the two identities its identifier was derived from,
\* and at each position the number of the profile of the identity at that position
WellFormed(d) ==
    /\ Len(d.participants) = 2
    /\ Len(d.participantNumbers) = 2
    /\ d.id = ChatIdOf(d.participants[1], d.participants[2])
    /\ \A i \in 1..2 : d.participantNumbers[i] = NumberOf(d.participants[i])

\* the step in which a write of client c's send commits
SendWrites(c) == pcSend[c].op \in {"append", "merge"} /\ pcSend'[c] # pcSend[c]

\* C21: in every conversation record, after any startChatWithNumber calls of either
\* participant and any sends, participants holds exactly the two identities the
\* identifier was derived from and participantNumbers[i] is the six-digit number of
\* participants[i] at both positions; a send never modifies participants or
\* participantNumbers
C21_ParticipantsAndNumbers ==
    /\ [](\A d \in chatDocs : WellFormed(d))
    /\ [][\A c \in Clients : SendWrites(c) =>
             \A d \in chatDocs : \E e \in chatDocs' :
                 /\ e.id = d.id
                 /\ e.participants = d.participants
                 /\ e.participantNumbers = d.participantNumbers]_vars

-----------------------------------------------------------------------------
(* The message stream: the list and the active conversation (C22) *)

\* C22: whenever the active conversation is C and the local message list is not
\* empty, every message of the list belongs to C, also between the switch of the
\* active conversation from another one to C and C's first message snapshot
C22_MessagesOfActive ==
    \A c \in Clients :
        (activeChatId[c] # None /\ messages[c] # <<>>) =>
            \A i \in 1..Len(messages[c]) : messages[c][i].chat = activeChatId[c]

-----------------------------------------------------------------------------
(* Signed out: no active conversation, no conversation list (C23) *)

\* C23: in every state in which the session is signed out, the active conversation
\* identifier is null and the conversation list is empty, also when a
\* startChatWithNumber call begun before the sign-out completes its lookup and its
\* upsert after the sign-out has been processed
C23_SignedOutNothingSelected ==
    \A c \in Clients :
        user[c] = None => (activeChatId[c] = None /\ chats[c] = <<>>)

-----------------------------------------------------------------------------
(* The message composer: what a send in flight writes (C24) *)

\* the step in which client c submits a non-blank send
SendSubmits(c) == pcSend[c].op = "idle" /\ pcSend'[c].op = "append"

\* the conversation records other than chatId are left as they are
OnlyTouches(chatId) ==
    {d \in chatDocs : d.id # chatId} = {d \in chatDocs' : d.id # chatId}

\* a send keeps what it was submitted with: the conversation that was active, the
\* identity and the number the session then had; its append adds one message to that
\* conversation with that identity and that number, and its merge-update writes that
\* conversation's record and no other
SendKeeps(c) ==
    /\ SendSubmits(c) =>
          /\ pcSend'[c].chat = activeChatId[c]
          /\ pcSend'[c].uid = user[c]
          /\ pcSend'[c].number = currentNumber[c]
    /\ (pcSend[c].op = "append" /\ pcSend'[c].op = "merge") =>
          pcSend'[c] = [pcSend[c] EXCEPT !.op = "merge"]
    /\ AppendCommits(c) =>
          /\ UNCHANGED chatDocs
          /\ \E m \in msgDocs' \ msgDocs :
                /\ msgDocs' = msgDocs \cup {m}
                /\ m.chat = pcSend[c].chat
                /\ m.senderId = pcSend[c].uid
                /\ m.senderNumber = pcSend[c].number
    /\ SendCompletes(c) =>
          /\ UNCHANGED msgDocs
          /\ OnlyTouches(pcSend[c].chat)
          /\ \E d \in chatDocs' : d.id = pcSend[c].chat /\ d.lastMessage = pcSend[c].text

\* C24: both writes of one send target the conversation that was active when the send
\* was submitted, and the message carries the identity and the number of the user who
\* submitted it, also when the active conversation changes or the user signs out
\* between the two writes
C24_SendCarriesSubmitter ==
    [][\A c \in Clients :
          /\ SendKeeps(c)
          /\ AppendCommits(c) =>
                \A m \in msgDocs' \ msgDocs : m.senderNumber = NumberOf(m.senderId)]_vars

-----------------------------------------------------------------------------
(* The displayed partner number (C25) *)

\* C25: whenever no conversation is active, the displayed partner number (the active
\* conversation's other participant number, else the pending number the last
\* startChatWithNumber returned) is empty; a pending number is cleared no later than
\* the sign-out that follows it, and is never there in a later session
C25_NoPartnerWithoutChat ==
    /\ [](\A c \in Clients : activeChatId[c] = None => DisplayPartnerNumber(c) = Empty)
    /\ [][\A c \in Clients :
             NotificationProcessed(c) => pendingPartnerNumber'[c] = Empty]_vars

-----------------------------------------------------------------------------
(* Signing up: the account and its profile document (C26) *)

\* C26: whenever an account exists for the handle built from six digits n and no
\* sign-up is in flight, a profile document for that account's identity exists with
\* number n; sign-up never leaves an account without a profile document
C26_AccountHasProfile ==
    (\A c \in Clients : pcAuth[c].op = "idle") =>
        \A a \in accounts :
            \E d \in userDocs : d.id = a.uid /\ d.number # None /\ toEmail(d.number) = a.email

====
